---------------------------- MODULE Spec2Model ----------------------------
(***************************************************************************)
(* A model of the throttle library: the LruCache (src/src/cache/lru.ts),   *)
(* the weak-reference helpers (src/src/weakref-generic.ts) and the         *)
(* memoizing wrapper `throttle` (src/unnamed/part_001).                    *)
(*                                                                         *)
(* A JavaScript number that may also be undefined, false or Infinity is a  *)
(* record [kind, n], n counting halves, so that 0.5 is a whole number.     *)
(* Timers count whole milliseconds, as the event loop does.                *)
(*                                                                         *)
(* Spec is the memoized function, SpecHeld the memoized function whose     *)
(* observer keeps the CacheItems so that the user can call their clear and *)
(* ttl, and SpecLru an LruCache used on its own.                           *)
(***************************************************************************)
EXTENDS Integers, Sequences, FiniteSets

VARIABLES
  storage,     \* LruCache.#storage, or the Map that getCache returns
  queue,       \* LruCache.#queue (stays empty when the cache is a Map)
  maxSize,     \* LruCache.#maxSize
  cacheKind,   \* "lru" or "map": which class getCache constructed
  options,     \* the func, timeout and ThrottleOptions given to throttle()
  items,       \* every CacheItem created so far, with its closure's timer
  alive,       \* FALSE once the cache object has been garbage collected
  last,        \* the operation that produced this state, and its outcome
  touched      \* history: the keys the LruCache holds, least recently
               \* touched first (kept for a cache used on its own)

vars == <<storage, queue, maxSize, cacheKind, options, items, alive, last,
          touched>>

---------------------------------------------------------------------------
(* Bounds of the model *)

\* at most this many CacheItems are created in a behaviour
MaxItems == 2

\* the number 1 in halves: the 1 of `timeout < 1`
One == 2

\* the cache keys of the model; "" is a falsy key (as the number 0 is)
Keys == {"", "a", "b"}

\* the keys the memoized function is called with
EngineKeys == {"", "a"}

---------------------------------------------------------------------------
(* JavaScript values *)

Undefined == [kind |-> "undefined", n |-> 0]
False == [kind |-> "false", n |-> 0]
Infinity == [kind |-> "Infinity", n |-> 0]
Num(n) == [kind |-> "number", n |-> n]

\* the whole number i
Whole(i) == Num(i * One)

\* ToBoolean of a number | undefined | false
Truthy(v) == v.kind = "Infinity" \/ (v.kind = "number" /\ v.n # 0)

\* ToBoolean of a cache key (a string here): only "" is falsy
TruthyKey(k) == k # ""

isNumber(v) == v.kind \in {"number", "Infinity"}

\* a < b for a number a and a number or Infinity b
LessThan(a, b) ==
  /\ a.kind = "number"
  /\ \/ b.kind = "Infinity"
     \/ b.kind = "number" /\ a.n < b.n

---------------------------------------------------------------------------
(* Sequences *)

\* Array.prototype.indexOf, 1-based; 0 when absent (JavaScript's -1)
IndexOf(q, k) ==
  IF \E i \in 1..Len(q) : q[i] = k
  THEN CHOOSE i \in 1..Len(q) : q[i] = k /\ \A j \in 1..(i - 1) : q[j] # k
  ELSE 0

\* Array.prototype.splice(idx, 1)
Splice(q, idx) == SubSeq(q, 1, idx - 1) \o SubSeq(q, idx + 1, Len(q))

\* a Map with key k removed / set
MapDelete(s, k) == [x \in DOMAIN s \ {k} |-> s[x]]
MapSet(s, k, v) == [x \in DOMAIN s \cup {k} |-> IF x = k THEN v ELSE s[x]]
EmptyMap == [x \in {} |-> 0]

---------------------------------------------------------------------------
(* LruCache: a cache is a record [storage, queue] *)

\* constructor: this.#maxSize = options.maxSize || Infinity
LruMaxSize(optMaxSize) == IF Truthy(optMaxSize) THEN optMaxSize ELSE Infinity

\* the storage left by #hit's eviction branch, evictKey = queue.shift()
HitEvictStorage(s, evictKey) ==
  IF TruthyKey(evictKey) THEN MapDelete(s, evictKey) ELSE s

\* #hit
LruHit(c, key, max) ==
  LET idx == IndexOf(c.queue, key) IN
  IF idx > 0
  THEN [c EXCEPT !.queue = Append(Splice(c.queue, idx), key)]
  ELSE LET pushed == Append(c.queue, key) IN
       IF LessThan(max, Whole(Len(pushed)))
       THEN [storage |-> HitEvictStorage(c.storage, Head(pushed)),
             queue |-> Tail(pushed)]
       ELSE [c EXCEPT !.queue = pushed]

\* #evict
LruEvict(c, key) ==
  LET idx == IndexOf(c.queue, key) IN
  IF idx > 0 THEN [c EXCEPT !.queue = Splice(c.queue, idx)] ELSE c

LruHas(c, key) == key \in DOMAIN c.storage

\* LruGet with the bug of calling #hit for a key that is not stored
LruGetAlwaysHit(c, key, max) == LruHit(c, key, max)

\* get: the cache after the call (the value returned is StorageGet)
LruGet(c, key, max) == IF LruHas(c, key) THEN LruHit(c, key, max) ELSE c

LruSet(c, key, value, max) ==
  LET h == LruHit(c, key, max) IN
  [h EXCEPT !.storage = MapSet(h.storage, key, value)]

\* LruDelete with the bug of dropping the key from the queue only
LruDeleteQueueOnly(c, key) == LruEvict(c, key)

LruDelete(c, key) ==
  LET e == LruEvict(c, key) IN
  [e EXCEPT !.storage = MapDelete(e.storage, key)]

LruClear(c) == [storage |-> EmptyMap, queue |-> <<>>]

---------------------------------------------------------------------------
(* The cache of one memoized function: an LruCache or a Map *)

\* getCache: an LruCache when options.maxSize is a number below Infinity
getCacheKind(opts) ==
  IF isNumber(opts.maxSize) /\ LessThan(opts.maxSize, Infinity)
  THEN "lru" ELSE "map"

Cache == [storage |-> storage, queue |-> queue]

CacheHas(c, key) == key \in DOMAIN c.storage

CacheGet(c, key) ==
  IF cacheKind = "lru" THEN LruGet(c, key, maxSize) ELSE c

CacheSet(c, key, value) ==
  IF cacheKind = "lru" THEN LruSet(c, key, value, maxSize)
  ELSE [c EXCEPT !.storage = MapSet(c.storage, key, value)]

CacheDelete(c, key) ==
  IF cacheKind = "lru" THEN LruDelete(c, key)
  ELSE [c EXCEPT !.storage = MapDelete(c.storage, key)]

CacheClear(c) == LruClear(c)

---------------------------------------------------------------------------
(* The weak reference to the cache *)

\* WeakRef.deref(): the cache object, or the value undefined once collected
getRealRef(isAlive) == IF isAlive THEN "[object]" ELSE "<undefined>"

\* the typeof operator: always the name of a type, a string
TypeOf(v) == IF v = "<undefined>" THEN "undefined" ELSE "object"

\* isRealRefDead with the bug of the comparison negated
isRealRefDeadNegated(isAlive) == TypeOf(getRealRef(isAlive)) # "<undefined>"

\* isRealRefDead: typeof v.deref() === undefined
isRealRefDead(isAlive) == TypeOf(getRealRef(isAlive)) = "<undefined>"

---------------------------------------------------------------------------
(* CacheItems and their closures.  A world is [c, items, observed]: the    *)
(* cache, the table of every CacheItem created, whether the user's        *)
(* observer has been called, and whether a TypeError was thrown.  An       *)
(* item's `armed` and `left` are the timeout its closure's variable `timer` *)
(* refers to, `orphans` counts the pending timeouts that variable no       *)
(* longer refers to, and its fields `removed`, `rearmed` and   *)
(* `never` are history: how the item left the cache, whether its ttl was  *)
(* called after it was populated, and whether it was, while cached, last  *)
(* given the duration Infinity or false.                                  *)

World == [c |-> Cache, items |-> items, observed |-> FALSE, threw |-> FALSE]

\* item e is the one the cache c holds under its key
InCache(c, its, e) ==
  /\ its[e].key \in DOMAIN c.storage
  /\ c.storage[its[e].key] = e

\* record why items left the cache between `before` and `after`; `by` is
\* the item whose closure ran (0 for none): an item removed by another
\* item's closure is marked "staleClear" when the user called that clear,
\* and "stale" when a timer or a rejection handler ran it
Mark(its, before, after, why, by) ==
  [e \in DOMAIN its |->
     IF InCache(before, its, e) /\ ~InCache(after, its, e)
     THEN [its[e] EXCEPT !.removed =
             IF by = 0 \/ by = e THEN why
             ELSE IF why = "clear" THEN "staleClear" ELSE "stale"]
     ELSE its[e]]

\* setTimeout's delay in milliseconds: a delay below 1 is raised to 1
TimerDelay(d) == IF d.n < One THEN 1 ELSE d.n \div One

\* cancelTimeout
cancelTimeout(its, e) == [its EXCEPT ![e].armed = FALSE, ![e].left = 0]

\* realCache.delete(key) for what deref() gave: calling a method of the
\* value undefined throws a TypeError
RefDelete(w, ref, key) ==
  IF ref = "[object]" THEN [w EXCEPT !.c = CacheDelete(w.c, key)]
  ELSE [w EXCEPT !.threw = TRUE]

\* clear with the bug of not testing realCache before calling its delete
clearUnguarded(w, e, why) ==
  LET its1 == cancelTimeout(w.items, e)
      w1 == IF ~isRealRefDead(alive)
            THEN RefDelete(w, getRealRef(alive), its1[e].key)
            ELSE w
  IN [w1 EXCEPT !.items = Mark(its1, w.c, w1.c, why, e)]

\* the item's clear closure
clear(w, e, why) ==
  LET its1 == cancelTimeout(w.items, e)
      w1 == IF ~isRealRefDead(alive) /\ getRealRef(alive) = "[object]"
            THEN RefDelete(w, getRealRef(alive), its1[e].key)
            ELSE w
  IN [w1 EXCEPT !.items = Mark(its1, w.c, w1.c, why, e)]

\* timer = setTimeout(clear, delay): a timeout `timer` still referred to
\* stays pending, with nothing left to cancel it
SetTimeout(its, e, delay) ==
  [its EXCEPT ![e].orphans = IF its[e].armed THEN @ + 1 ELSE @,
              ![e].armed = TRUE,
              ![e].left = TimerDelay(delay)]

\* applyTimeout with the bug of arming no timer
applyTimeoutDisarmed(its, e, newTimeout) == cancelTimeout(its, e)

\* applyTimeout with the bug of not cancelling the previous timer
applyTimeoutNoCancel(its, e, newTimeout) ==
  IF newTimeout = Infinity \/ newTimeout = False
  THEN its
  ELSE SetTimeout(its, e, newTimeout)

\* the item's applyTimeout closure (CacheItem.ttl)
applyTimeout(its, e, newTimeout) ==
  LET its1 == cancelTimeout(its, e) IN
  IF newTimeout = Infinity \/ newTimeout = False
  THEN its1
  ELSE SetTimeout(its1, e, newTimeout)

\* rejectFailedPromise with the bug of attaching no handler
rejectFailedPromiseNoCatch(w, e) == w

\* rejectFailedPromise: value.catch(item.clear) when the value is a promise
rejectFailedPromise(w, e) ==
  IF w.items[e].promise = "none" THEN w
  ELSE [w EXCEPT !.items[e].handler = TRUE]

\* options.onCached, the user's observer
observer(w, e) ==
  LET w1 == [w EXCEPT !.observed = options.onCached # "none"] IN
  IF options.onCached = "clear" THEN clear(w1, e, "clear") ELSE w1

\* the function getOnCached returns, applied to item e
onCached(w, e) ==
  IF options.rejectFailedPromise = False THEN observer(w, e)
  ELSE IF options.onCached = "none" THEN rejectFailedPromise(w, e)
  ELSE observer(rejectFailedPromise(w, e), e)

\* toResolverKey(resolver(...args)) for the single string argument k:
\* a one-element array resolves to its element, a string to itself
toResolverKey(args) == args[1]

\* Bypass with the bug of testing !timeout only
BypassFalsyOnly(timeout) == ~Truthy(timeout)

\* caching is bypassed: !timeout || timeout < 1
Bypass(timeout) == ~Truthy(timeout) \/ LessThan(timeout, Whole(1))

\* the populate branch up to onCached; res is what the callee returned
Populate(w, key, res) ==
  LET e == Len(w.items) + 1
      item == [key |-> key, armed |-> FALSE, left |-> 0, orphans |-> 0,
               promise |-> IF res = "promise" THEN "pending" ELSE "none",
               handler |-> FALSE, removed |-> "no", rearmed |-> FALSE,
               never |-> options.timeout = Infinity]
      c1 == CacheSet(w.c, key, e)
      its1 == Mark(Append(w.items, item), w.c, c1, "evicted", 0)
      its2 == applyTimeout(its1, e, options.timeout)
  IN onCached([w EXCEPT !.c = c1, !.items = its2], e)

\* return cache.get(key)!.value
ReadBack(w, key) ==
  LET c1 == CacheGet(w.c, key) IN
  [w EXCEPT !.c = c1, !.items = Mark(w.items, w.c, c1, "evicted", 0)]

\* Miss with the bug of storing the entry whatever the callee did
MissStoresFirst(w, key, res) == ReadBack(Populate(w, key, res), key)

\* the branch taken when the cache has no entry for key: the callee is
\* called first, and an error it throws leaves the branch at once
Miss(w, key, res) ==
  IF res = "throw" THEN w ELSE ReadBack(Populate(w, key, res), key)

NoOp == [op |-> "init", key |-> "", item |-> 0, out |-> "none",
         called |-> FALSE, observed |-> FALSE]

\* how a callback ended: "TypeError" when it threw, "none" otherwise
Outcome(w) == IF w.threw THEN "TypeError" ELSE "none"

SetWorld(w) ==
  /\ storage' = w.c.storage
  /\ queue' = w.c.queue
  /\ items' = w.items

---------------------------------------------------------------------------
(* The memoized function and its methods *)

\* the memoized callable, called with the one argument k; res is what the
\* callee does if it is called.  last.out is "callee" when the call returns
\* what the callee just returned, "cached" with last.item the item whose
\* value it returns, "throw" when the callee's error propagates, and
\* "TypeError" when cache.get(key) is undefined.  At most `bound` CacheItems
\* are created in a behaviour
InvokeWithin(k, res, bound) ==
  /\ alive
  /\ IF Bypass(options.timeout)
     THEN /\ last' = [NoOp EXCEPT !.op = "invoke", !.key = k, !.called = TRUE,
                        !.out = IF res = "throw" THEN "throw" ELSE "callee"]
          /\ UNCHANGED <<storage, queue, items>>
     ELSE LET key == toResolverKey(<<k>>) IN
          IF ~CacheHas(Cache, key)
          THEN LET w2 == Miss(World, key, res)
                   hit == CacheHas(w2.c, key)
               IN /\ Len(w2.items) <= bound
                  /\ SetWorld(w2)
                  /\ last' = [NoOp EXCEPT !.op = "invoke", !.key = k,
                       !.called = TRUE, !.observed = w2.observed,
                       !.item = IF hit /\ res # "throw"
                                THEN w2.c.storage[key] ELSE 0,
                       !.out = IF res = "throw" THEN "throw"
                               ELSE IF hit THEN "cached" ELSE "TypeError"]
          ELSE LET w2 == ReadBack(World, key)
                   hit == CacheHas(w2.c, key)
               IN /\ SetWorld(w2)
                  /\ last' = [NoOp EXCEPT !.op = "invoke", !.key = k,
                       !.item = IF hit THEN w2.c.storage[key] ELSE 0,
                       !.out = IF hit THEN "cached" ELSE "TypeError"]
  /\ UNCHANGED <<maxSize, cacheKind, options, alive, touched>>

Invoke(k, res) == InvokeWithin(k, res, MaxItems)

\* retrieveCachedValue(k): cache.get(key)?.value
retrieveCachedValue(k) ==
  /\ alive
  /\ LET key == toResolverKey(<<k>>)
         w2 == ReadBack(World, key)
         hit == CacheHas(w2.c, key)
     IN /\ SetWorld(w2)
        /\ last' = [NoOp EXCEPT !.op = "retrieve", !.key = k,
             !.item = IF hit THEN w2.c.storage[key] ELSE 0,
             !.out = IF hit THEN "cached" ELSE "undefined"]
  /\ UNCHANGED <<maxSize, cacheKind, options, alive, touched>>

\* clearCache(): cache.clear()
clearCacheAll ==
  /\ alive
  /\ LET c1 == CacheClear(Cache) IN
     SetWorld([World EXCEPT !.c = c1,
                            !.items = Mark(items, Cache, c1, "clearCache", 0)])
  /\ last' = [NoOp EXCEPT !.op = "clearCacheAll"]
  /\ UNCHANGED <<maxSize, cacheKind, options, alive, touched>>

\* clearCache(k): cache.delete(key)
clearCache(k) ==
  /\ alive
  /\ LET c1 == CacheDelete(Cache, toResolverKey(<<k>>)) IN
     SetWorld([World EXCEPT !.c = c1,
                            !.items = Mark(items, Cache, c1, "clearCache", 0)])
  /\ last' = [NoOp EXCEPT !.op = "clearCache", !.key = k]
  /\ UNCHANGED <<maxSize, cacheKind, options, alive, touched>>

---------------------------------------------------------------------------
(* What happens to a CacheItem after the call that created it *)

\* the user calls item.clear() on an item the observer kept
EntryClear(e) ==
  /\ options.onCached = "hold"
  /\ LET w2 == clear(World, e, "clear") IN
     /\ SetWorld(w2)
     /\ last' = [NoOp EXCEPT !.op = "entryClear", !.item = e,
                  !.key = items[e].key, !.out = Outcome(w2)]
  /\ UNCHANGED <<maxSize, cacheKind, options, alive, touched>>

\* the user calls item.ttl(d) on an item the observer kept; last.out is
\* "cancelled" when cancelTimeout found a timer to clear
EntryTtl(e, d) ==
  /\ options.onCached = "hold"
  /\ items' = [applyTimeout(items, e, d) EXCEPT
                 ![e].rearmed = TRUE,
                 ![e].never = InCache(Cache, items, e) /\ d \in {Infinity, False}]
  /\ last' = [NoOp EXCEPT !.op = "entryTtl", !.item = e, !.key = items[e].key,
                !.out = IF items[e].armed THEN "cancelled" ELSE "none"]
  /\ UNCHANGED <<storage, queue, maxSize, cacheKind, options, alive, touched>>

\* the item's timer fires: setTimeout runs clear
TimerFired(e) ==
  /\ items[e].armed
  /\ items[e].left = 0
  /\ LET w2 == clear(World, e, "expired") IN
     /\ SetWorld(w2)
     /\ last' = [NoOp EXCEPT !.op = "timer", !.item = e,
                  !.key = items[e].key, !.out = Outcome(w2)]
  /\ UNCHANGED <<maxSize, cacheKind, options, alive, touched>>

\* the cached promise rejects: the handler of value.catch, if attached, runs
Reject(e) ==
  /\ items[e].promise = "pending"
  /\ LET w1 == [World EXCEPT !.items[e].promise = "rejected"]
         w2 == IF items[e].handler THEN clear(w1, e, "failed") ELSE w1
     IN /\ SetWorld(w2)
        /\ last' = [NoOp EXCEPT !.op = "reject", !.item = e,
                     !.key = items[e].key, !.out = Outcome(w2)]
  /\ UNCHANGED <<maxSize, cacheKind, options, alive, touched>>

\* a millisecond passes; a timer that is due fires before time moves on
Tick ==
  /\ \E e \in DOMAIN items : items[e].armed
  /\ \A e \in DOMAIN items : items[e].armed => items[e].left > 0
  /\ items' = [e \in DOMAIN items |->
                 IF items[e].armed
                 THEN [items[e] EXCEPT !.left = @ - 1] ELSE items[e]]
  /\ last' = [NoOp EXCEPT !.op = "tick"]
  /\ UNCHANGED <<storage, queue, maxSize, cacheKind, options, alive, touched>>

\* the memoized function becomes unreachable and its cache is collected
Reclaim ==
  /\ alive
  /\ alive' = FALSE
  /\ last' = [NoOp EXCEPT !.op = "reclaim"]
  /\ UNCHANGED <<storage, queue, maxSize, cacheKind, options, items, touched>>

---------------------------------------------------------------------------
(* The specification of the memoized function *)

Timeouts == {Undefined, Whole(0 - 1), Whole(0), Num(1), Whole(1), Infinity}
MaxSizes == {Undefined, Whole(1)}
Durations == {False, Infinity, Whole(0), Whole(1)}
Funcs == {"sync", "async"}

\* what a call of the callee can do: a synchronous function returns a plain
\* value or throws, an async function returns a promise
Results(func) == IF func = "async" THEN {"promise"} ELSE {"value", "throw"}

InitWith(opts) ==
  /\ options = opts
  /\ cacheKind = getCacheKind(opts)
  /\ maxSize = LruMaxSize(opts.maxSize)
  /\ storage = EmptyMap
  /\ queue = <<>>
  /\ items = <<>>
  /\ alive = TRUE
  /\ last = NoOp
  /\ touched = <<>>

\* the memoized function with no observer, or one that clears the item
Init ==
  \E opts \in [func : Funcs, timeout : Timeouts, maxSize : MaxSizes,
               rejectFailedPromise : {Undefined, False},
               onCached : {"none", "clear"}] : InitWith(opts)

Next ==
  \/ \E k \in EngineKeys, res \in Results(options.func) : Invoke(k, res)
  \/ \E k \in EngineKeys : retrieveCachedValue(k)
  \/ clearCacheAll
  \/ \E k \in EngineKeys : clearCache(k)
  \/ \E e \in DOMAIN items : TimerFired(e)
  \/ \E e \in DOMAIN items : Reject(e)
  \/ Tick
  \/ Reclaim

Spec == Init /\ [][Next]_vars

\* the memoized function with an observer that keeps every CacheItem, so
\* that the user can call item.clear() and item.ttl(d) at any later time
InitHeld ==
  \E opts \in [func : Funcs, timeout : {Whole(1)}, maxSize : {Undefined},
               rejectFailedPromise : {Undefined},
               onCached : {"hold"}] : InitWith(opts)

NextHeld ==
  \/ Next
  \/ \E e \in DOMAIN items : EntryClear(e)
  \/ \E e \in DOMAIN items, d \in Durations : EntryTtl(e, d)

SpecHeld == InitHeld /\ [][NextHeld]_vars

\* the memoized function with an LruCache of one entry and a timeout of
\* 1 ms, followed for one more CacheItem, so that an entry evicted by the
\* entry of another key can be populated again
InitBounded ==
  \E opts \in [func : Funcs, timeout : {Whole(1)}, maxSize : {Whole(1)},
               rejectFailedPromise : {Undefined},
               onCached : {"none", "clear"}] : InitWith(opts)

NextBounded ==
  \/ \E k \in EngineKeys, res \in Results(options.func) :
       InvokeWithin(k, res, MaxItems + 1)
  \/ \E k \in EngineKeys : retrieveCachedValue(k)
  \/ clearCacheAll
  \/ \E k \in EngineKeys : clearCache(k)
  \/ \E e \in DOMAIN items : TimerFired(e)
  \/ \E e \in DOMAIN items : Reject(e)
  \/ Tick
  \/ Reclaim

SpecBounded == InitBounded /\ [][NextBounded]_vars

---------------------------------------------------------------------------
(* An LruCache used on its own *)

Values == {1, 2}
LruMaxSizes == {Undefined, Whole(0 - 1), Whole(0), Whole(1), Whole(2)}

\* the history `touched` after key k is touched, then cut down to the keys
\* the storage s holds
Touch(t, k) ==
  LET Other(x) == x # k IN Append(SelectSeq(t, Other), k)

Held(t, s) ==
  LET Stored(x) == x \in DOMAIN s IN SelectSeq(t, Stored)

SetCache(c) ==
  /\ storage' = c.storage
  /\ queue' = c.queue

LruCache_set(k, v) ==
  /\ SetCache(LruSet(Cache, k, v, maxSize))
  /\ touched' = Held(Touch(touched, k), storage')
  /\ last' = [NoOp EXCEPT !.op = "set", !.key = k]
  /\ UNCHANGED <<maxSize, cacheKind, options, items, alive>>

\* last.out is "value" with last.item the value returned, or "undefined"
LruCache_get(k) ==
  /\ SetCache(LruGet(Cache, k, maxSize))
  /\ touched' = Held(IF LruHas(Cache, k) THEN Touch(touched, k) ELSE touched,
                     storage')
  /\ last' = [NoOp EXCEPT !.op = "get", !.key = k,
                !.out = IF k \in DOMAIN storage' THEN "value" ELSE "undefined",
                !.item = IF k \in DOMAIN storage' THEN storage'[k] ELSE 0]
  /\ UNCHANGED <<maxSize, cacheKind, options, items, alive>>

LruCache_has(k) ==
  /\ last' = [NoOp EXCEPT !.op = "has", !.key = k,
                !.out = IF LruHas(Cache, k) THEN "true" ELSE "false"]
  /\ UNCHANGED <<storage, queue, touched, maxSize, cacheKind, options, items,
                 alive>>

LruCache_delete(k) ==
  /\ SetCache(LruDelete(Cache, k))
  /\ touched' = Held(touched, storage')
  /\ last' = [NoOp EXCEPT !.op = "delete", !.key = k]
  /\ UNCHANGED <<maxSize, cacheKind, options, items, alive>>

LruCache_clear ==
  /\ SetCache(LruClear(Cache))
  /\ touched' = <<>>
  /\ last' = [NoOp EXCEPT !.op = "clear"]
  /\ UNCHANGED <<maxSize, cacheKind, options, items, alive>>

InitLru ==
  \E m \in LruMaxSizes :
    /\ maxSize = LruMaxSize(m)
    /\ cacheKind = "lru"
    /\ options = [func |-> "sync", timeout |-> Undefined, maxSize |-> m,
                  rejectFailedPromise |-> Undefined, onCached |-> "none"]
    /\ storage = EmptyMap
    /\ queue = <<>>
    /\ items = <<>>
    /\ alive = TRUE
    /\ last = NoOp
    /\ touched = <<>>

NextLru ==
  \/ \E k \in Keys, v \in Values : LruCache_set(k, v)
  \/ \E k \in Keys : LruCache_get(k)
  \/ \E k \in Keys : LruCache_has(k)
  \/ \E k \in Keys : LruCache_delete(k)
  \/ LruCache_clear

SpecLru == InitLru /\ [][NextLru]_vars

---------------------------------------------------------------------------
(* The claims about the memoized function *)

Finite(t) == t.kind = "number"

\* the ways an item leaves the cache that end what is promised to it: a
\* clear() or clearCache call by the user, an LRU eviction, its own failure
OwnRemovals == {"clear", "staleClear", "clearCache", "evicted", "failed"}

\* C1: with a positive finite timeout, an entry that was populated, whose
\* own timer has not run out, and that was not removed by clearCache, its
\* own clear, an LRU eviction or its own failure, nor re-armed by its ttl,
\* is still the entry cached under its key: a call with its key returns
\* its value and does not call the callee.
C1_NoRecomputeWithinTtl ==
  (alive /\ Finite(options.timeout)) =>
    \A e \in DOMAIN items :
      (/\ items[e].armed
       /\ items[e].left > 0
       /\ ~items[e].rearmed
       /\ items[e].removed \notin OwnRemovals) => InCache(Cache, items, e)

\* C2: with a positive finite timeout and no ttl call, (a) an entry in the
\* cache always has its timer pending, (b) a cache hit or a
\* retrieveCachedValue leaves every timer as it was, and (c) when an
\* entry's timer fires its key is no longer in the cache.
C2_CachedEntryHasTimer ==
  (alive /\ Finite(options.timeout)) =>
    \A e \in DOMAIN items :
      (InCache(Cache, items, e) /\ ~items[e].rearmed) => items[e].armed

C2_ReadKeepsTimers ==
  (last'.op = "retrieve" \/ (last'.op = "invoke" /\ ~last'.called)) =>
    /\ DOMAIN items' = DOMAIN items
    /\ \A e \in DOMAIN items :
         /\ items'[e].armed = items[e].armed
         /\ items'[e].left = items[e].left

C2_FiredEntryGone ==
  \A e \in DOMAIN items :
    (TimerFired(e) /\ alive) => items[e].key \notin DOMAIN storage'

\* C2: (a) in every state, (b) and (c) in every step
C2_ExpiresWhenTimerFires ==
  /\ [] C2_CachedEntryHasTimer
  /\ [][C2_ReadKeepsTimers /\ C2_FiredEntryGone]_vars

\* C2's case: an entry was still cached when its timer fired and removed it
C2_Witness ==
  /\ alive
  /\ last.op = "timer"
  /\ items[last.item].removed = "expired"
  /\ last.key \notin DOMAIN storage

\* C3: an entry that, while cached, was given the duration Infinity or
\* false has no pending timer and stays in the cache unless it is removed
\* by clearCache, its own clear, an LRU eviction or its own failure.
C3_NeverExpires ==
  alive =>
    \A e \in DOMAIN items :
      items[e].never =>
        /\ ~items[e].armed
        /\ items[e].removed \in OwnRemovals \/ InCache(Cache, items, e)

\* the timeout is unset, zero or negative
Unconfigured(t) == t.kind = "undefined" \/ (t.kind = "number" /\ t.n <= 0)

\* C4: when the timeout is unset, zero or negative, every call of the
\* memoized function calls the callee and passes on what it returns or
\* throws, and the cache stays empty with no CacheItem and no timer.
C4_BypassWhenUnconfigured ==
  Unconfigured(options.timeout) =>
    /\ storage = EmptyMap
    /\ queue = <<>>
    /\ items = <<>>
    /\ last.op = "invoke" => (last.called /\ last.out \in {"callee", "throw"})

\* C4's case: the memoized function was called with no timeout configured
C4_Witness ==
  /\ Unconfigured(options.timeout)
  /\ last.op = "invoke"
  /\ last.out = "callee"

\* C5: clearCache() leaves the cache with no entry; clearCache(k) removes
\* the entry under key k and leaves every other key and its entry as it was.
C5_Step ==
  /\ clearCacheAll => DOMAIN storage' = {}
  /\ \A k \in EngineKeys :
       clearCache(k) =>
         /\ DOMAIN storage' = DOMAIN storage \ {k}
         /\ \A x \in DOMAIN storage' : storage'[x] = storage[x]

\* C5: every step is as C5_Step says
C5_ClearCacheFrame == [][C5_Step]_vars

\* C5's case: clearCache(k) removed k's entry and another entry remains
C5_Witness ==
  /\ last.op = "clearCache"
  /\ \E e \in DOMAIN items :
       items[e].key = last.key /\ items[e].removed = "clearCache"
  /\ \E e \in DOMAIN items :
       items[e].key # last.key /\ InCache(Cache, items, e)

\* C6: an entry removed by its clear() or by clearCache, and not re-armed
\* since, has no pending timer, and its timer never fires.
C6_RemovedEntryTimerCancelled ==
  /\ \A e \in DOMAIN items :
       (items[e].removed \in {"clear", "clearCache"} /\ ~items[e].rearmed)
         => ~items[e].armed
  /\ ~(/\ last.op = "timer"
       /\ items[last.item].removed \in {"clear", "clearCache"}
       /\ ~items[last.item].rearmed)

\* C7: when the callee throws in a call that misses the cache, the error
\* propagates and neither the cache nor any CacheItem or timer changes, and
\* the observer is not called.
C7_Step ==
  (last'.op = "invoke" /\ last'.out = "throw") =>
    /\ last'.called
    /\ ~last'.observed
    /\ storage' = storage
    /\ queue' = queue
    /\ items' = items

\* C7: every step is as C7_Step says
C7_ThrowLeavesStateUnchanged == [][C7_Step]_vars

\* C7's case: with caching on and an entry cached under another key, the
\* callee threw in a call that missed
C7_Witness ==
  /\ ~Unconfigured(options.timeout)
  /\ Finite(options.timeout) => options.timeout.n >= One
  /\ last.op = "invoke"
  /\ last.out = "throw"
  /\ last.key \notin DOMAIN storage
  /\ storage # EmptyMap

---------------------------------------------------------------------------
(* The claims about the LruCache *)

\* maxSize is a whole number N >= 1
Bounded == maxSize.kind = "number" /\ maxSize.n >= One

\* the keys #hit chooses for eviction when key is set
EvictKeys(c, key, max) ==
  IF IndexOf(c.queue, key) = 0 /\ LessThan(max, Whole(Len(c.queue) + 1))
  THEN {Head(Append(c.queue, key))} ELSE {}

\* C9: when the cache holds N = maxSize keys, setting a new key removes
\* exactly the key least recently touched by a set or a hitting get, and
\* adds the new key.
C9_Step ==
  \A k \in Keys, v \in Values :
    (/\ LruCache_set(k, v)
     /\ Bounded
     /\ k \notin DOMAIN storage
     /\ Whole(Cardinality(DOMAIN storage)) = maxSize)
    => DOMAIN storage' = (DOMAIN storage \ {Head(touched)}) \cup {k}

\* C9: every step is as C9_Step says
C9_EvictsLeastRecentlyTouched == [][C9_Step]_vars

\* C10: with maxSize N >= 1, at most N keys are in the cache in every
\* state, and a key chosen for eviction by set is not in the cache after
\* that set.
C10_AtMostN == Bounded => Cardinality(DOMAIN storage) * One <= maxSize.n

C10_Step ==
  \A k \in Keys, v \in Values :
    (LruCache_set(k, v) /\ Bounded) =>
      \A x \in EvictKeys(Cache, k, maxSize) : x \notin DOMAIN storage'

\* C10: at most N keys in every state, and every step is as C10_Step says
C10_BoundedAndEvicted == [] C10_AtMostN /\ [][C10_Step]_vars

---------------------------------------------------------------------------
(* The claims about the weak reference *)

\* C11: isRealRefDead is false while the cache object is live and true
\* once it has been collected, that is exactly when getRealRef returns
\* undefined.
C11_DeadIffReclaimed ==
  isRealRefDead(alive) <=> (getRealRef(alive) = "<undefined>")

\* C12: when the cache has been collected, the run of an entry's clear by
\* its timer or by its rejection handler throws nothing, deletes nothing
\* and leaves the cache collected.
C12_Step ==
  \A e \in DOMAIN items :
    (~alive /\ (TimerFired(e) \/ Reject(e))) =>
      /\ last'.out # "TypeError"
      /\ storage' = storage
      /\ queue' = queue
      /\ ~alive'

\* C12: every step is as C12_Step says
C12_ClearAfterReclaimIsNoOp == [][C12_Step]_vars

\* C12's case: an entry was cached when the cache was collected, and its
\* timer fired afterwards
C12_Witness ==
  /\ ~alive
  /\ last.op = "timer"
  /\ last.key \in DOMAIN storage
  /\ storage[last.key] = last.item

\* C13: the clear of an entry, run by the user, by the entry's timer or by
\* its rejection handler, removes no entry but its own: no entry is ever
\* removed from the cache by the clear of another, older entry of its key.
C13_ClearRemovesOwnEntryOnly ==
  \A e \in DOMAIN items : items[e].removed \notin {"stale", "staleClear"}

\* C14: with caching on, a call that misses the cache fails only when the
\* callee throws; otherwise it returns the value of the entry the cache
\* then holds under the key, also when the observer cleared the entry it
\* was given.
C14_MissFailsOnlyIfCalleeThrows ==
  (last.op = "invoke" /\ last.called /\ ~Bypass(options.timeout)) =>
    \/ last.out = "throw"
    \/ last.out = "cached" /\ InCache(Cache, items, last.item)

\* the cache after the step
CacheAfter == [storage |-> storage', queue |-> queue']

\* C15: when an entry of key k has left the cache and k is absent, a call
\* with k whose callee returns calls the callee, creates one new entry for
\* k and gives it to the observer, if there is one; the new entry is in the
\* cache, unless the observer cleared it, with its timer armed for the
\* configured duration, or with no timer when the duration is Infinity.
C15_Step ==
  \A k \in EngineKeys :
    (/\ ~CacheHas(Cache, k)
     /\ \E e \in DOMAIN items : items[e].key = k /\ items[e].removed # "no"
     /\ last'.op = "invoke"
     /\ last'.key = k
     /\ last'.out # "throw")
    => /\ last'.called
       /\ Len(items') = Len(items) + 1
       /\ last'.observed = (options.onCached # "none")
       /\ LET n == Len(items') IN
          /\ items'[n].key = k
          /\ \/ InCache(CacheAfter, items', n)
             \/ options.onCached = "clear" /\ items'[n].removed = "clear"
          /\ InCache(CacheAfter, items', n) =>
               IF Finite(options.timeout)
               THEN /\ items'[n].armed
                    /\ items'[n].left = TimerDelay(options.timeout)
               ELSE ~items'[n].armed

\* C15: every step is as C15_Step says
C15_AbsentAgainAfterRemoval == [][C15_Step]_vars

\* C15's case: an entry evicted by the entry of another key was populated
\* again, after an entry of that other key had expired
C15_Witness ==
  /\ last.op = "invoke"
  /\ last.called
  /\ last.item \in DOMAIN items
  /\ InCache(Cache, items, last.item)
  /\ \E e \in DOMAIN items :
       /\ e < last.item
       /\ items[e].key = last.key
       /\ items[e].removed = "evicted"
  /\ \E e \in DOMAIN items : items[e].removed = "expired"

\* the timeouts pending for item e
PendingTimers(e) == items[e].orphans + (IF items[e].armed THEN 1 ELSE 0)

\* C16: every entry has at most one pending timer in every state; a ttl
\* call leaves the entry with at most one, and with none when the duration
\* is Infinity or false.
C16_AtMostOne == \A e \in DOMAIN items : PendingTimers(e) <= 1

C16_Step ==
  \A e \in DOMAIN items, d \in Durations :
    EntryTtl(e, d) =>
      /\ items'[e].orphans = 0
      /\ d \in {Infinity, False} => ~items'[e].armed

\* C16: at most one in every state, and every step is as C16_Step says
C16_AtMostOneTimer == [] C16_AtMostOne /\ [][C16_Step]_vars

\* C16's case: ttl was called with a finite duration on an entry whose
\* timer was pending, and the entry has that new timer
C16_Witness ==
  /\ last.op = "entryTtl"
  /\ last.out = "cancelled"
  /\ items[last.item].armed

\* C17: has(key) changes neither the storage nor the order of the queue,
\* whether the key is present or not, and so changes no later eviction;
\* get(key) of a key that is not stored changes nothing either.
C17_Step ==
  \A k \in Keys :
    /\ LruCache_has(k) =>
         /\ storage' = storage
         /\ queue' = queue
         /\ \A x \in Keys : EvictKeys(CacheAfter, x, maxSize)
                              = EvictKeys(Cache, x, maxSize)
    /\ (LruCache_get(k) /\ ~LruHas(Cache, k)) =>
         /\ storage' = storage
         /\ queue' = queue
         /\ last'.out = "undefined"

\* C17: every step is as C17_Step says
C17_HasAndMissingGetChangeNothing == [][C17_Step]_vars

\* C17's case: has was called with the least recently used key of a full
\* cache, which is still the key the next set of a new key evicts
C17_Witness ==
  /\ last.op = "has"
  /\ last.out = "true"
  /\ Len(queue) > 1
  /\ Whole(Len(queue)) = maxSize
  /\ Head(queue) = last.key

\* C18: retrieveCachedValue calls no callee, creates no CacheItem, adds no
\* entry to the cache and removes none, arms and cancels no timer, and
\* returns the value cached under the key, or undefined when there is none.
C18_Step ==
  \A k \in EngineKeys :
    retrieveCachedValue(k) =>
      /\ ~last'.called
      /\ storage' = storage
      /\ DOMAIN items' = DOMAIN items
      /\ \A e \in DOMAIN items :
           /\ items'[e].armed = items[e].armed
           /\ items'[e].left = items[e].left
      /\ last'.out = IF CacheHas(Cache, k) THEN "cached" ELSE "undefined"
      /\ CacheHas(Cache, k) => last'.item = storage[k]

\* C18: every step is as C18_Step says
C18_RetrieveIsARead == [][C18_Step]_vars

\* C19: caching is bypassed only when the timeout is unset, zero or
\* negative: with any positive finite timeout, also one below 1, a call
\* whose callee returns never passes the callee's value on uncached, and a
\* call that misses stores an entry with a timer armed for that duration.
C19_PositiveTimeoutCaches ==
  (/\ Finite(options.timeout)
   /\ options.timeout.n > 0
   /\ last.op = "invoke"
   /\ last.called
   /\ last.out # "throw")
  => /\ last.out # "callee"
     /\ items # <<>>
     /\ options.onCached = "none" =>
          /\ InCache(Cache, items, Len(items))
          /\ items[Len(items)].armed
          /\ items[Len(items)].left = TimerDelay(options.timeout)

\* C20: in every state of an LruCache the queue holds exactly the keys of
\* the storage, each of them once.
C20_QueueMatchesStorage ==
  /\ {queue[i] : i \in 1..Len(queue)} = DOMAIN storage
  /\ \A i, j \in 1..Len(queue) : queue[i] = queue[j] => i = j

===========================================================================
